---- MODULE Spec2Model ----
(***************************************************************************)
(* Model of gcal_import.py: the reconciliation of an ICS feed against one  *)
(* Google calendar (import_ics -> gcal_clear, import_events,               *)
(* delete_other_events) and the event comparator gcal_compare.             *)
(*                                                                         *)
(* The calendar ("gcal") is the remote store.  Its answers are the         *)
(* nondeterministic part of every step: a call answers "ok" (applied as    *)
(* requested), "quirk" (accepted, but the stored event comes back with     *)
(* status cancelled, the case the FIXME of import_events describes) or     *)
(* "raise" (an exception).                                                 *)
(***************************************************************************)
EXTENDS Integers, Sequences, FiniteSets, TLC

\* ------------------------------------------------------------------ bounds
\* Longest ICS document (number of components) a run reads.
MaxDoc == 2
\* Number of import_ics runs made one after the other on the same calendar:
\* with any arguments (Spec), and as plain imports (SpecImports).
MaxRuns == 1
MaxImports == 2
\* Longest recurrence list of an event passed to gcal_compare on its own.
MaxRules == 2

\* ----------------------------------------------------------- Python values
\* None, for the text valued attributes (summary, status, ...).
None == "<None>"
\* A missing "sequence" key of Event.other (other.get("sequence") is None).
NoSeq == 0 - 1
\* Event.recurrence: a list of rule strings, or None.
PyList(rs) == [isList |-> TRUE, rules |-> rs]
NoneRec == [isList |-> FALSE, rules |-> <<>>]

\* A rule string is a sequence of characters.  The characters of the model,
\* in their code point order (":" < ";" < "A" < ... < "U").
Alphabet == <<":", ";", "A", "B", "E", "L", "R", "U">>
Ord(c) == CHOOSE i \in 1..Len(Alphabet) : Alphabet[i] = c
RRULE == <<"R", "R", "U", "L", "E", ":">>

\* Python's str < str.
RECURSIVE StrLess(_, _)
StrLess(s, t) ==
    IF t = <<>> THEN FALSE
    ELSE IF s = <<>> THEN TRUE
    ELSE IF Head(s) # Head(t) THEN Ord(Head(s)) < Ord(Head(t))
    ELSE StrLess(Tail(s), Tail(t))

\* list.sort() on a list of strings.
RECURSIVE Insert(_, _)
Insert(x, l) ==
    IF l = <<>> THEN <<x>>
    ELSE IF StrLess(Head(l), x) THEN <<Head(l)>> \o Insert(x, Tail(l))
    ELSE <<x>> \o l
RECURSIVE Sort(_)
Sort(l) == IF l = <<>> THEN <<>> ELSE Insert(Head(l), Sort(Tail(l)))

\* re.sub("^RRULE:", "", s)
StripPrefix(s) ==
    IF Len(s) >= Len(RRULE) /\ SubSeq(s, 1, Len(RRULE)) = RRULE
    THEN SubSeq(s, Len(RRULE) + 1, Len(s))
    ELSE s

\* set(s.split(";"))
RECURSIVE SplitParts(_, _)
SplitParts(s, cur) ==
    IF s = <<>> THEN {cur}
    ELSE IF Head(s) = ";" THEN {cur} \cup SplitParts(Tail(s), <<>>)
    ELSE SplitParts(Tail(s), Append(cur, Head(s)))
RuleParts(s) == SplitParts(StripPrefix(s), <<>>)

\* ------------------------------------------------------------ gcal_compare
\* p in ["", None]
IsEmpty(p) == p \in {"", None}

\* One pass of the first loop for a text attribute (summary, description,
\* location): "continue" is TRUE, "return False" is FALSE.
CompareText(p1, p2) == (IsEmpty(p1) /\ IsEmpty(p2)) \/ p1 = p2

\* start and end are always set on an Event, so only p1 != p2 decides.
CompareTime(p1, p2) == p1 = p2

\* (mutant) "opaque" not taken as the default transparency.
CompareTransparency_no_default(p1, p2) ==
    (IsEmpty(p1) /\ IsEmpty(p2)) \/ p1 = p2

CompareTransparency(p1, p2) ==
    \/ IsEmpty(p1) /\ IsEmpty(p2)
    \/ p1 \in {"", None, "opaque"} /\ p2 \in {"", None, "opaque"}
    \/ p1 = p2

CompareRecurrence(p1, p2) ==
    IF ~p1.isList /\ ~p2.isList THEN TRUE
    ELSE IF ~p1.isList \/ ~p2.isList THEN FALSE
    ELSE IF Len(p1.rules) # Len(p2.rules) THEN FALSE
    ELSE LET s1 == Sort(p1.rules)
             s2 == Sort(p2.rules)
         IN \A i \in 1..Len(s1) : RuleParts(s1[i]) = RuleParts(s2[i])

CompareStatus(p1, p2) ==
    \/ IsEmpty(p1) /\ IsEmpty(p2)
    \/ p1 \in {"", None, "confirmed"} /\ p2 \in {"", None, "confirmed"}
    \/ p1 = p2

CompareSequence(p1, p2) == p1 = p2

gcal_compare(event1, event2, ignore_sequence) ==
    /\ CompareText(event1.summary, event2.summary)
    /\ CompareText(event1.description, event2.description)
    /\ CompareText(event1.location, event2.location)
    /\ CompareTime(event1.start, event2.start)
    /\ CompareTime(event1.end, event2.end)
    /\ CompareRecurrence(event1.recurrence, event2.recurrence)
    /\ CompareTransparency(event1.transparency, event2.transparency)
    /\ CompareStatus(event1.status, event2.status)
    /\ (ignore_sequence \/ CompareSequence(event1.sequence, event2.sequence))

\* p1.sort() and p2.sort() change the lists of the argument events.  They
\* are reached when the attributes before "recurrence" did not return, the
\* two values are not both None, both are lists and of one length.
SortReached(event1, event2) ==
    /\ CompareText(event1.summary, event2.summary)
    /\ CompareText(event1.description, event2.description)
    /\ CompareText(event1.location, event2.location)
    /\ CompareTime(event1.start, event2.start)
    /\ CompareTime(event1.end, event2.end)
    /\ event1.recurrence.isList /\ event2.recurrence.isList
    /\ Len(event1.recurrence.rules) = Len(event2.recurrence.rules)
\* The argument events when gcal_compare has returned.
AfterCompare(event1, event2) ==
    IF SortReached(event1, event2)
    THEN [first |-> [event1 EXCEPT !.recurrence.rules = Sort(@)],
          second |-> [event2 EXCEPT !.recurrence.rules = Sort(@)]]
    ELSE [first |-> event1, second |-> event2]

\* ------------------------------------------------------------- ICS feed
\* An ICS component (icalendar item).  A property that the component does
\* not carry is None (NoRule for RRULE, NoSeq for SEQUENCE).
NoRule == <<>>
Component(name, uid, recid, summary, dtstart, dtend, rrule, status, seq) ==
    [name |-> name, UID |-> uid, RECURRENCE_ID |-> recid, SUMMARY |-> summary,
     DESCRIPTION |-> None, LOCATION |-> None, DTSTART |-> dtstart,
     DTEND |-> dtend, RRULE |-> rrule, STATUS |-> status, TRANSP |-> None,
     SEQUENCE |-> seq]

\* The components a document is made of: a plain event X, the same identity
\* as a recurring series with other content, a second identity Y, three
\* overrides of occurrences of X (two of them for the same occurrence with
\* different content, one whose window spans two occurrences) and a to-do.
RuleAB == <<"A", ";", "B">>
Components ==
    { Component("VEVENT", "X", FALSE, "a", 1, 2, NoRule, None, 3),
      Component("VEVENT", "X", FALSE, " b", 1, 2, RuleAB, "CONFIRMED", NoSeq),
      Component("VEVENT", "Y", FALSE, "a", 3, 4, NoRule, "TENTATIVE", NoSeq),
      Component("VEVENT", "X", TRUE, "a", 1, 2, NoRule, None, NoSeq),
      Component("VEVENT", "X", TRUE, "b", 1, 2, NoRule, None, NoSeq),
      Component("VEVENT", "X", TRUE, "b", 1, 3, NoRule, None, NoSeq),
      Component("VTODO", "T", FALSE, "a", 1, 2, NoRule, None, NoSeq) }

RECURSIVE SeqsUpTo(_, _)
SeqsUpTo(S, n) ==
    IF n = 0 THEN {<<>>}
    ELSE LET shorter == SeqsUpTo(S, n - 1)
         IN shorter \cup {Append(s, x) : s \in shorter, x \in S}
Docs == SeqsUpTo(Components, MaxDoc)

\* (mutant) the VEVENTs in document order, the instances not moved last.
read_ics_document_order(doc) ==
    SelectSeq(doc, LAMBDA item : item.name = "VEVENT")

\* read_ics, after the document was fetched and parsed: the VEVENTs without
\* RECURRENCE-ID in document order, then those with one.
IsSeries(item) == item.name = "VEVENT" /\ ~item.RECURRENCE_ID
IsInstance(item) == item.name = "VEVENT" /\ item.RECURRENCE_ID
read_ics(doc) == SelectSeq(doc, IsSeries) \o SelectSeq(doc, IsInstance)

\* str.strip() and str.lower() on the values the components carry.
Strip(s) == IF s = " b" THEN "b" ELSE s
Lower(s) ==
    CASE s = "CONFIRMED" -> "confirmed"
      [] s = "TENTATIVE" -> "tentative"
      [] s = "CANCELLED" -> "cancelled"
      [] s = "OPAQUE" -> "opaque"
      [] s = "TRANSPARENT" -> "transparent"
      [] OTHER -> s

\* ics_to_gcal.  SEQUENCE is not read (the lines are commented out), so the
\* event carries no "sequence".  event_id, parent and slot belong to the
\* store: 0 on an event that was not read from it.
ics_to_gcal(ical_event) ==
    LET status == IF ical_event.STATUS # None THEN Lower(ical_event.STATUS)
                  ELSE "confirmed"
    IN [iCalUID |-> ical_event.UID,
        summary |-> IF ical_event.SUMMARY # None
                    THEN Strip(ical_event.SUMMARY) ELSE "",
        description |-> IF ical_event.DESCRIPTION # None
                        THEN ical_event.DESCRIPTION ELSE "",
        location |-> IF ical_event.LOCATION # None
                     THEN ical_event.LOCATION ELSE "",
        start |-> ical_event.DTSTART,
        end |-> ical_event.DTEND,
        recurrence |-> IF ical_event.RRULE # NoRule
                       THEN PyList(<<RRULE \o ical_event.RRULE>>)
                       ELSE PyList(<<>>),
        transparency |-> IF ical_event.TRANSP # None
                         THEN Lower(ical_event.TRANSP) ELSE "opaque",
        status |-> IF status # "" THEN status ELSE None,
        sequence |-> NoSeq,
        event_id |-> 0, parent |-> 0, slot |-> 0]

\* ------------------------------------------------------ the calendar store
\* What the calendar does with a call is not code of this program: it is
\* modelled after the calls the program makes.  The calendar holds events
\* (records shaped like the Event of ics_to_gcal): series (parent = 0) and
\* overridden occurrences of a recurring series (parent = the series'
\* event_id, slot = the occurrence).  A recurring series has NOcc
\* occurrences, one time unit apart.
NOcc == 2
\* The highest revision the calendar counts to (it stays there).
MaxSeq == 5

ReadModes == {"ok", "raise"}
WriteModes == {"ok", "quirk", "raise"}

SeriesOf(st) == {e \in st : e.parent = 0}
IsRecurring(e) == e.recurrence.isList /\ e.recurrence.rules # <<>>

\* A set of events as the list the calendar returns: by start, then by id.
Before(a, b) ==
    \/ a.start < b.start
    \/ a.start = b.start /\ a.event_id < b.event_id
RECURSIVE AsList(_)
AsList(S) ==
    IF S = {} THEN <<>>
    ELSE LET first == CHOOSE a \in S : \A b \in S \ {a} : Before(a, b)
         IN <<first>> \o AsList(S \ {first})

\* The calendar omits default values: it returns an empty text as None and
\* the transparency "opaque" as None.
Normalise(ev) ==
    [ev EXCEPT !.summary = IF @ = "" THEN None ELSE @,
               !.description = IF @ = "" THEN None ELSE @,
               !.location = IF @ = "" THEN None ELSE @,
               !.transparency = IF @ \in {"", "opaque"} THEN None ELSE @]

\* End of the last occurrence of a series.
LastEnd(e) == IF IsRecurring(e) THEN e.end + NOcc - 1 ELSE e.end

\* gcal.get_events(iCalUID=ical_uid, time_min, time_max, single_events=False)
\* uid = None: no iCalUID filter.  Series only; a series is in the window
\* when one of its occurrences ends after time_min and it starts before
\* time_max.
get_events(st, uid, time_min, time_max) ==
    AsList({e \in SeriesOf(st) :
              /\ uid = None \/ e.iCalUID = uid
              /\ LastEnd(e) > time_min
              /\ e.start < time_max})

\* The occurrence `slot` of a series: the override the calendar holds for
\* it, else the series' own data moved to the occurrence.
InstanceId(parent_id, slot) == parent_id * 10 + slot
Occurrence(st, series, slot) ==
    LET over == {e \in st : e.parent = series.event_id /\ e.slot = slot}
    IN IF over # {} THEN CHOOSE e \in over : TRUE
       ELSE [series EXCEPT !.event_id = InstanceId(series.event_id, slot),
                           !.parent = series.event_id,
                           !.slot = slot,
                           !.start = @ + slot - 1,
                           !.end = @ + slot - 1,
                           !.recurrence = PyList(<<>>)]

\* gcal.get_instances(recurring_event, time_min, time_max, maxResults)
get_instances(st, recurring_event, time_min, time_max, maxResults) ==
    LET all == IF IsRecurring(recurring_event)
               THEN {Occurrence(st, recurring_event, k) : k \in 1..NOcc}
               ELSE {}
        hit == AsList({e \in all : e.end > time_min /\ e.start < time_max})
    IN IF Len(hit) > maxResults THEN SubSeq(hit, 1, maxResults) ELSE hit

\* The smallest id no series of the calendar has.
NextId(st) ==
    CHOOSE i \in 1..(Cardinality(st) + 1) :
        /\ \A e \in SeriesOf(st) : e.event_id # i
        /\ \A j \in 1..(i - 1) : \E e \in SeriesOf(st) : e.event_id = j

\* gcal.import_event(event): [store, res].  mode is "ok" or "quirk".
import_event(st, event, mode) ==
    LET new == [Normalise(event) EXCEPT
                  !.event_id = NextId(st),
                  !.sequence = 0,
                  !.status = IF mode = "quirk" THEN "cancelled" ELSE @]
    IN [store |-> st \cup {new}, res |-> new]

\* gcal.update_event(event): [store, res].  The event is found by its
\* event_id; the update of an occurrence leaves an override.
update_event(st, event, mode) ==
    LET old == {e \in st : e.event_id = event.event_id}
        new == [Normalise(event) EXCEPT
                  !.sequence = IF @ = NoSeq THEN 0
                               ELSE IF @ < MaxSeq THEN @ + 1 ELSE @,
                  !.status = IF mode = "quirk" THEN "cancelled" ELSE @]
    IN [store |-> (st \ old) \cup {new}, res |-> new]

\* gcal.delete_event(event): the event and, with a series, its overrides.
delete_event(st, event) ==
    {e \in st : e.event_id # event.event_id /\ e.parent # event.event_id}

\* ------------------------------------------------------------------ state
VARIABLES
    store,          \* the events of the target calendar
    calendars,      \* TRUE when the calendar named on the command line exists
    args,           \* the arguments of the running import_ics
    source,         \* whether read_ics could fetch and parse the ICS source
    doc,            \* the ICS document last read
    feed,           \* read_ics(doc): the items import_events loops over
    idx,            \* position of the loop of import_events in feed
    gcal_changes,   \* the ledger import_events builds
    processed_uids, \* import_events' list of identities
    pc,             \* where import_ics stands
    result,         \* how the last import_ics ended
    runs,           \* number of import_ics runs started
    calls,          \* the calendar calls of the current run, in order
    outcomes,       \* what import_events did with each item, in order
    swept,          \* the last pass of delete_other_events
    prev,           \* whether the run before was a plain import in which
                    \* every call answered "ok", and the document it read
    rerun,          \* this run is a plain import of that same document
    event1,         \* the first argument of a call of gcal_compare
    event2,         \* its second argument
    compared        \* that call: what was passed, and what it returned

vars == <<store, calendars, args, source, doc, feed, idx, gcal_changes,
          processed_uids, pc, result, runs, calls, outcomes, swept, prev,
          rerun, event1, event2, compared>>
\* The variables of a call of gcal_compare on its own.
cmpvars == <<event1, event2, compared>>

\* datetime(1970, 1, 1) and datetime(3000, 1, 1), on the model's time line.
TimeMin == 0
TimeMax == 9
\* The values datetime.now() takes when the sweep runs.
Nows == {1, 2}

EmptyChanges ==
    [updated |-> <<>>, created |-> <<>>, untouched |-> <<>>,
     duplicates |-> <<>>, unsupported |-> <<>>, failed |-> <<>>]
\* A ledger entry that is an identity, not an Event.
UidEntry(uid) == [iCalUID |-> uid]
Add(changes, kind, entry) == [changes EXCEPT ![kind] = Append(@, entry)]

\* A call: the function that made it, the calendar method, the identity
\* and the feed item it was made for, the answer, and for a query the
\* number of events it returned.
Query(by, op, uid, item, res, found) ==
    [by |-> by, op |-> op, uid |-> uid, item |-> item, res |-> res,
     found |-> found]
Call(by, op, uid, item, res) == Query(by, op, uid, item, res, 0)
\* What a pass of the loop did with its item: the list of the ledger it
\* appended to ("would_create" and "would_update": the dry run's log line,
\* no entry; "raised": an exception left import_events), whether the last
\* comparison of the pass found the desired state, and the revision of the
\* event the calendar returned for it (NoSeq: none was compared), and that
\* event, as a list of at most one event.
Outcome(item, uid, inst, kind, verified, remote_sequence, remote) ==
    [item |-> item, uid |-> uid, inst |-> inst, kind |-> kind,
     verified |-> verified, remote_sequence |-> remote_sequence,
     remote |-> remote]
NoSweep == [ran |-> FALSE, finished |-> FALSE, before |-> {}, time_min |-> 0,
            imported |-> {}, deleted |-> {}]

\* (mutant) the lookup with time_min and time_max exchanged.
gcal_get_event_swapped(st, ical_uid) ==
    LET res == get_events(st, ical_uid, TimeMax, TimeMin)
    IN IF res # <<>> THEN <<res[1]>> ELSE <<>>

\* gcal_get_event: res[0] if res else None, as a list of at most one event.
gcal_get_event(st, ical_uid) ==
    LET res == get_events(st, ical_uid, TimeMin, TimeMax)
    IN IF res # <<>> THEN <<res[1]>> ELSE <<>>

\* (mutant) the copy without the summary.
CopyEventData_no_summary(target, gcal_ics_event) ==
    [target EXCEPT !.description = gcal_ics_event.description,
                   !.location = gcal_ics_event.location,
                   !.transparency = gcal_ics_event.transparency,
                   !.start = gcal_ics_event.start,
                   !.end = gcal_ics_event.end,
                   !.recurrence = gcal_ics_event.recurrence,
                   !.status = IF gcal_ics_event.status \notin {"", None}
                              THEN gcal_ics_event.status ELSE @]

\* "Copy event data": the desired fields put on the event read from the
\* calendar (import_events, both copies).
CopyEventData(target, gcal_ics_event) ==
    [target EXCEPT !.summary = gcal_ics_event.summary,
                   !.description = gcal_ics_event.description,
                   !.location = gcal_ics_event.location,
                   !.transparency = gcal_ics_event.transparency,
                   !.start = gcal_ics_event.start,
                   !.end = gcal_ics_event.end,
                   !.recurrence = gcal_ics_event.recurrence,
                   !.status = IF gcal_ics_event.status \notin {"", None}
                              THEN gcal_ics_event.status ELSE @]

\* What one pass of the loop returns: the calendar and the ledger after it,
\* the calls it made, what it did, whether an exception left the loop and
\* whether the pass reached processed_uids.append.
Step(st, changes, cs, kind, verified, raised) ==
    [store |-> st, changes |-> changes, calls |-> cs, kind |-> kind,
     verified |-> verified, raised |-> raised, processed |-> FALSE,
     remote_sequence |-> NoSeq, remote |-> <<>>]

\* import_events, "if gcal_event:" (a matching event was found).
FoundPath(st, changes, gcal_event, gcal_ics_event, i, dry_run, um) ==
    LET uid == gcal_ics_event.iCalUID
        merged == CopyEventData(gcal_event, gcal_ics_event)
        step ==
          IF gcal_compare(gcal_event, gcal_ics_event, TRUE)
          THEN Step(st, Add(changes, "untouched", gcal_event), <<>>,
                    "untouched", TRUE, FALSE)
          ELSE IF dry_run
          THEN Step(st, changes, <<>>, "would_update", TRUE, FALSE)
          ELSE IF um = "raise"
          THEN Step(st, changes,
                    <<Call("import_events", "update_event", uid, i,
                           "raise")>>,
                    "raised", FALSE, TRUE)
          ELSE LET r == update_event(st, merged, um)
                   c == <<Call("import_events", "update_event", uid, i, um)>>
               IN IF gcal_compare(gcal_ics_event, r.res, TRUE)
                  THEN Step(r.store, Add(changes, "updated", r.res), c,
                            "updated", TRUE, FALSE)
                  ELSE Step(r.store, Add(changes, "failed", r.res), c,
                            "failed", FALSE, FALSE)
    IN [step EXCEPT !.remote_sequence = gcal_event.sequence,
                    !.remote = <<gcal_event>>]

\* import_events, "Create new event".
CreatePath(st, changes, gcal_ics_event, i, dry_run, cm, um) ==
    LET uid == gcal_ics_event.iCalUID
    IN IF dry_run
       THEN Step(st, changes, <<>>, "would_create", TRUE, FALSE)
       ELSE IF cm = "raise"
       THEN Step(st, Add(changes, "failed", gcal_ics_event),
                 <<Call("import_events", "import_event", uid, i, "raise")>>,
                 "failed", FALSE, FALSE)
       ELSE LET r == import_event(st, gcal_ics_event, cm)
                c1 == <<Call("import_events", "import_event", uid, i, cm)>>
            IN IF gcal_compare(gcal_ics_event, r.res, TRUE)
               THEN Step(r.store, Add(changes, "created", r.res), c1,
                         "created", TRUE, FALSE)
               ELSE IF um = "raise"
               THEN Step(r.store, changes,
                         Append(c1, Call("import_events", "update_event",
                                         uid, i, "raise")),
                         "raised", FALSE, TRUE)
               ELSE LET r2 == update_event(
                                r.store, CopyEventData(r.res, gcal_ics_event),
                                um)
                    IN Step(r2.store, Add(changes, "created", r2.res),
                            Append(c1, Call("import_events", "update_event",
                                            uid, i, um)),
                            "created",
                            gcal_compare(gcal_ics_event, r2.res, TRUE),
                            FALSE)

\* (mutant) the first of several instances taken as the match.
InstancePath_first_match(st, changes, gcal_ics_event, i, dry_run, lm, im, um) ==
    LET uid == gcal_ics_event.iCalUID
        parent == gcal_get_event(st, uid)
        look == Query("import_events", "get_events", uid, i, lm,
                      IF lm = "raise" THEN 0 ELSE Len(parent))
        gcal_events ==
            IF parent = <<>> \/ im = "raise" THEN <<>>
            ELSE get_instances(st, parent[1], gcal_ics_event.start,
                               gcal_ics_event.end, 2)
        inst == Query("import_events", "get_instances", uid, i,
                      IF parent = <<>> THEN "raise" ELSE im,
                      Len(gcal_events))
        failed == Add(changes, "failed", UidEntry(uid))
    IN IF lm = "raise"
       THEN Step(st, changes, <<look>>, "raised", FALSE, TRUE)
       ELSE IF parent = <<>> \/ im = "raise" \/ gcal_events = <<>>
       THEN Step(st, failed, <<look, inst>>, "failed", FALSE, FALSE)
       ELSE LET f == FoundPath(st, changes, gcal_events[1], gcal_ics_event,
                               i, dry_run, um)
            IN [f EXCEPT !.calls = <<look, inst>> \o @, !.processed = TRUE]

\* import_events, the branch of an item with RECURRENCE-ID.
InstancePath(st, changes, gcal_ics_event, i, dry_run, lm, im, um) ==
    LET uid == gcal_ics_event.iCalUID
        parent == gcal_get_event(st, uid)
        look == Query("import_events", "get_events", uid, i, lm,
                      IF lm = "raise" THEN 0 ELSE Len(parent))
        gcal_events ==
            IF parent = <<>> \/ im = "raise" THEN <<>>
            ELSE get_instances(st, parent[1], gcal_ics_event.start,
                               gcal_ics_event.end, 2)
        inst == Query("import_events", "get_instances", uid, i,
                      IF parent = <<>> THEN "raise" ELSE im,
                      Len(gcal_events))
        failed == Add(changes, "failed", UidEntry(uid))
    IN IF lm = "raise"
       THEN Step(st, changes, <<look>>, "raised", FALSE, TRUE)
       ELSE IF parent = <<>> \/ im = "raise"
       THEN Step(st, failed, <<look, inst>>, "failed", FALSE, FALSE)
       ELSE IF Len(gcal_events) # 1
       THEN Step(st, failed, <<look, inst>>, "failed", FALSE, FALSE)
       ELSE LET f == FoundPath(st, changes, gcal_events[1], gcal_ics_event,
                               i, dry_run, um)
            IN [f EXCEPT !.calls = <<look, inst>> \o @, !.processed = TRUE]

\* import_events, the branch of an item without RECURRENCE-ID that was not
\* processed before.
SeriesPath(st, changes, gcal_ics_event, i, dry_run, lm, cm, um) ==
    LET uid == gcal_ics_event.iCalUID
        gcal_event == gcal_get_event(st, uid)
        look == Query("import_events", "get_events", uid, i, lm,
                      IF lm = "raise" THEN 0 ELSE Len(gcal_event))
        p == IF gcal_event # <<>>
             THEN FoundPath(st, changes, gcal_event[1], gcal_ics_event, i,
                            dry_run, um)
             ELSE CreatePath(st, changes, gcal_ics_event, i, dry_run, cm, um)
    IN IF lm = "raise"
       THEN Step(st, changes, <<look>>, "raised", FALSE, TRUE)
       ELSE [p EXCEPT !.calls = <<look>> \o @, !.processed = TRUE]

\* (mutant) the check of processed_uids left out.
AlreadyProcessed_never(ical_uid, processed) == FALSE

\* "elif ical_uid in processed_uids"
AlreadyProcessed(ical_uid, processed) ==
    \E k \in 1..Len(processed) : processed[k] = ical_uid

\* One pass of the loop of import_events over the item feed[i], the
\* calendar answering its lookup with lm, get_instances with im,
\* import_event with cm and update_event with um.
ItemStep(st, changes, processed, ical_event, i, dry_run, lm, im, cm, um) ==
    LET gcal_ics_event == ics_to_gcal(ical_event)
        ical_uid == gcal_ics_event.iCalUID
    IN IF ical_event.RECURRENCE_ID
       THEN InstancePath(st, changes, gcal_ics_event, i, dry_run, lm, im, um)
       ELSE IF AlreadyProcessed(ical_uid, processed)
       THEN Step(st, Add(changes, "duplicates", UidEntry(ical_uid)), <<>>,
                 "duplicates", TRUE, FALSE)
       ELSE SeriesPath(st, changes, gcal_ics_event, i, dry_run, lm, cm, um)

\* ------------------------------------------------- gcal_clear, the sweep
RECURSIVE DeleteEach(_, _)
DeleteEach(st, events) ==
    IF events = <<>> THEN st
    ELSE DeleteEach(delete_event(st, Head(events)), Tail(events))

DeleteCalls(by, events, n, lastRes) ==
    [k \in 1..n |->
        Call(by, "delete_event", events[k].iCalUID, 0,
             IF k = n THEN lastRes ELSE "ok")]

\* (mutant) gcal_clear returns with its deletions not made.
gcal_clear_deletions_pending(st, dry_run, failAt, dm) ==
    LET res == get_events(st, None, TimeMin, TimeMax)
        list == <<Query("gcal_clear", "get_events", None, 0, "ok",
                        Len(res))>>
        n == Len(res)
    IN IF dry_run
       THEN [store |-> st, calls |-> list, raised |-> FALSE, deleted |-> 0]
       ELSE [store |-> st,
             calls |-> list \o DeleteCalls("gcal_clear", res, n, "ok"),
             raised |-> FALSE, deleted |-> n]

\* gcal_clear(gcal, dry_run).  At most one delete_event of the pass does not
\* answer "ok": the one at failAt (0: none), which answers dm, "gone" (410,
\* the event is no longer there) or "raise" (any other error).  A 410 is
\* ignored, any other error leaves the function.
\* "deleted = deleted + 1" is in the else branch
\* of "if dry_run": a dry run returns 0.
gcal_clear(st, dry_run, failAt, dm) ==
    LET res == get_events(st, None, TimeMin, TimeMax)
        list == <<Query("gcal_clear", "get_events", None, 0, "ok",
                        Len(res))>>
        n == Len(res)
    IN IF dry_run
       THEN [store |-> st, calls |-> list, raised |-> FALSE, deleted |-> 0]
       ELSE IF failAt = 0 \/ failAt > n
       THEN [store |-> DeleteEach(st, res),
             calls |-> list \o DeleteCalls("gcal_clear", res, n, "ok"),
             raised |-> FALSE, deleted |-> n]
       ELSE IF dm = "gone"
       THEN [store |-> DeleteEach(st, res),
             calls |-> list \o
                 [k \in 1..n |->
                    Call("gcal_clear", "delete_event", res[k].iCalUID, 0,
                         IF k = failAt THEN "gone" ELSE "ok")],
             raised |-> FALSE, deleted |-> n]
       ELSE [store |-> DeleteEach(st, SubSeq(res, 1, failAt - 1)),
             calls |-> list \o
                 DeleteCalls("gcal_clear", res, failAt, "raise"),
             raised |-> TRUE, deleted |-> failAt - 1]

\* (mutant) the untouched entries left out of imported_uids.
ImportedUids_no_untouched(imported_events) ==
    LET kept == imported_events.updated \o imported_events.created
    IN {kept[k].iCalUID : k \in 1..Len(kept)}

\* The identities of the ledger the sweep keeps.
ImportedUids(imported_events) ==
    LET kept == imported_events.updated \o imported_events.created
                \o imported_events.untouched
    IN {kept[k].iCalUID : k \in 1..Len(kept)}

IsFringe(ev, imported_uids) == ev.iCalUID \notin imported_uids

\* delete_other_events(gcal, imported_events, include_past_events, dry_run)
\* with datetime.now() = now.  No exception of delete_event is caught: the
\* delete at failAt (0: none) answers dm and leaves the function; with
\* "gone" the event is no longer in the calendar.
delete_other_events(st, imported_events, include_past_events, dry_run, now, failAt, dm) ==
    LET min == IF include_past_events THEN TimeMin ELSE now
        events == get_events(st, None, min, TimeMax)
        imported_uids == ImportedUids(imported_events)
        fringe == SelectSeq(events, LAMBDA ev : IsFringe(ev, imported_uids))
        list == <<Query("delete_other_events", "get_events", None, 0, "ok",
                        Len(events))>>
        n == Len(fringe)
        info == [ran |-> TRUE, finished |-> TRUE, before |-> st,
                 time_min |-> min, imported |-> imported_uids,
                 deleted |-> {}]
    IN IF dry_run
       THEN [store |-> st, calls |-> list, raised |-> FALSE,
             deleted_count |-> 0, info |-> info]
       ELSE IF failAt = 0 \/ failAt > n
       THEN [store |-> DeleteEach(st, fringe),
             calls |-> list \o
                 DeleteCalls("delete_other_events", fringe, n, "ok"),
             raised |-> FALSE, deleted_count |-> n,
             info |-> [info EXCEPT
                 !.deleted = {fringe[k].event_id : k \in 1..n}]]
       ELSE [store |-> DeleteEach(st, SubSeq(fringe, 1,
                          IF dm = "gone" THEN failAt ELSE failAt - 1)),
             calls |-> list \o
                 DeleteCalls("delete_other_events", fringe, failAt, dm),
             raised |-> TRUE, deleted_count |-> failAt - 1,
             info |-> [info EXCEPT
                 !.finished = FALSE,
                 !.deleted = {fringe[k].event_id : k \in 1..(failAt - 1)}]]

\* ----------------------------------------------------------- initial state
\* An event as the calendar holds it.
Stored(id, uid, summary, start, end, rules, status, seq) ==
    [iCalUID |-> uid, summary |-> summary, description |-> None,
     location |-> None, start |-> start, end |-> end,
     recurrence |-> PyList(rules), transparency |-> None, status |-> status,
     sequence |-> seq, event_id |-> id, parent |-> 0, slot |-> 0]

\* The calendars a first run may find: an empty one; one that holds X with
\* other content and a later revision, and an event Z no feed names; one
\* that holds X as a recurring series and an event P that is over.
InitStores ==
    { {},
      { Stored(1, "X", "old", 1, 2, <<>>, "confirmed", 5),
        Stored(2, "Z", "z", 3, 4, <<>>, "confirmed", 0) },
      { Stored(1, "X", "b", 1, 2, <<RRULE \o <<"B", ";", "A">> >>,
               "confirmed", 0),
        Stored(2, "P", "p", 0, 1, <<>>, "confirmed", 0) } }

CalendarNames == {"Work", "c1@group.calendar.google.com"}
\* re.match(".+@group.calendar.google.com", calendar_name)
IsCalendarId(calendar_name) == calendar_name = "c1@group.calendar.google.com"

NoArgs == [clear |-> FALSE, delete |-> FALSE, dry_run |-> FALSE]
NoPrev == [clean |-> FALSE, doc |-> <<>>]

\* An Event whose attributes are all set, and no call of gcal_compare.
BaseEvent == Stored(0, "X", "a", 1, 2, <<>>, "confirmed", 0)
NoCompare == [pc |-> "idle", ignore_sequence |-> FALSE, result |-> FALSE, given1 |-> BaseEvent, given2 |-> BaseEvent]

Init ==
    /\ store \in InitStores
    /\ calendars \in BOOLEAN
    /\ ~calendars => store = {}
    /\ args = NoArgs
    /\ source = "none"
    /\ doc = <<>>
    /\ feed = <<>>
    /\ idx = 0
    /\ gcal_changes = EmptyChanges
    /\ processed_uids = <<>>
    /\ pc = "idle"
    /\ result = "none"
    /\ runs = 0
    /\ calls = <<>>
    /\ outcomes = <<>>
    /\ swept = NoSweep
    /\ prev = NoPrev
    /\ rerun = FALSE
    /\ event1 = BaseEvent
    /\ event2 = BaseEvent
    /\ compared = NoCompare

\* ---------------------------------------------------------------- actions
\* import_ics is called with flags of `flags`: the calendar named on the
\* command line is looked up and, when no calendar has that name, created
\* (dry run or not).
Begin(flags, limit) ==
    /\ UNCHANGED cmpvars
    /\ pc = "idle"
    /\ runs < limit
    /\ \E calendar_name \in CalendarNames, a \in flags :
          /\ IsCalendarId(calendar_name) => calendars
          /\ args' = a
          /\ IF ~IsCalendarId(calendar_name) /\ ~calendars
             THEN /\ calendars' = TRUE
                  /\ calls' = <<Call("import_ics", "calendars.insert", None,
                                     0, "ok")>>
             ELSE /\ calendars' = calendars
                  /\ calls' = <<>>
    /\ pc' = "clear"
    /\ result' = "running"
    /\ runs' = runs + 1
    /\ outcomes' = <<>>
    /\ swept' = NoSweep
    /\ gcal_changes' = EmptyChanges
    /\ processed_uids' = <<>>
    /\ source' = "none"
    /\ doc' = <<>>
    /\ feed' = <<>>
    /\ idx' = 0
    /\ rerun' = FALSE
    /\ UNCHANGED <<store, prev>>

AllArgs == [clear : BOOLEAN, delete : BOOLEAN, dry_run : BOOLEAN]
StartRun == Begin(AllArgs, MaxRuns)

\* import_ics, "if clear:".
ClearSteps ==
    {gcal_clear(store, args.dry_run, failAt, dm) :
        failAt \in 0..Cardinality(SeriesOf(store)), dm \in {"gone", "raise"}}
ClearStep ==
    /\ UNCHANGED cmpvars
    /\ pc = "clear"
    /\ IF args.clear
       THEN \E r \in ClearSteps :
               /\ store' = r.store
               /\ calls' = calls \o r.calls
               /\ pc' = IF r.raised THEN "idle" ELSE "read"
               /\ result' = IF r.raised THEN "raised" ELSE result
               /\ prev' = IF r.raised THEN NoPrev ELSE prev
       ELSE /\ pc' = "read"
            /\ UNCHANGED <<store, calls, result, prev>>
    /\ UNCHANGED <<calendars, args, source, doc, feed, idx, gcal_changes,
                   processed_uids, runs, outcomes, swept, rerun>>

\* A plain import: no clear, no sweep, no dry run.
PlainImport(a) == ~a.clear /\ ~a.delete /\ ~a.dry_run

\* (mutant) a source that cannot be read taken as a feed without items.
ReadFeed_empty_on_failure ==
    /\ UNCHANGED cmpvars
    /\ pc = "read"
    /\ \E d \in Docs, ok \in BOOLEAN :
          /\ source' = IF ok THEN "read" ELSE "unavailable"
          /\ doc' = IF ok THEN d ELSE <<>>
          /\ feed' = IF ok THEN read_ics(d) ELSE <<>>
          /\ rerun' = (ok /\ prev.clean /\ d = prev.doc /\ PlainImport(args))
    /\ idx' = 1
    /\ pc' = "import"
    /\ gcal_changes' = EmptyChanges
    /\ processed_uids' = <<>>
    /\ UNCHANGED <<store, calendars, args, runs, calls, outcomes, swept, result, prev>>

\* import_events up to the loop: the ledger is made and read_ics reads the
\* document, or fails to (the exception leaves import_ics).
ReadFeed ==
    /\ UNCHANGED cmpvars
    /\ pc = "read"
    /\ \E d \in Docs, ok \in BOOLEAN :
          IF ok
          THEN /\ source' = "read"
               /\ doc' = d
               /\ feed' = read_ics(d)
               /\ idx' = 1
               /\ pc' = "import"
               /\ rerun' = (prev.clean /\ d = prev.doc /\ PlainImport(args))
               /\ UNCHANGED <<result, prev>>
          ELSE /\ source' = "unavailable"
               /\ pc' = "idle"
               /\ result' = "raised"
               /\ prev' = NoPrev
               /\ UNCHANGED <<doc, feed, idx, rerun>>
    /\ gcal_changes' = EmptyChanges
    /\ processed_uids' = <<>>
    /\ UNCHANGED <<store, calendars, args, runs, calls, outcomes, swept>>

\* One pass of the loop of import_events.
ItemSteps ==
    {ItemStep(store, gcal_changes, processed_uids, feed[idx], idx,
              args.dry_run, lm, im, cm, um) :
        lm \in ReadModes, im \in ReadModes, cm \in WriteModes,
        um \in WriteModes}
ProcessItem ==
    /\ UNCHANGED cmpvars
    /\ pc = "import"
    /\ idx <= Len(feed)
    /\ \E r \in ItemSteps :
          /\ store' = r.store
          /\ gcal_changes' = r.changes
          /\ processed_uids' = IF r.processed
                               THEN Append(processed_uids, feed[idx].UID)
                               ELSE processed_uids
          /\ calls' = calls \o r.calls
          /\ outcomes' = Append(outcomes,
                 Outcome(idx, feed[idx].UID, feed[idx].RECURRENCE_ID,
                         r.kind, r.verified, r.remote_sequence, r.remote))
          /\ idx' = IF r.raised THEN idx ELSE idx + 1
          /\ pc' = IF r.raised THEN "idle" ELSE "import"
          /\ result' = IF r.raised THEN "raised" ELSE result
          /\ prev' = IF r.raised THEN NoPrev ELSE prev
    /\ UNCHANGED <<calendars, args, source, doc, feed, runs, swept, rerun>>

\* bool(events) of a dict: it has a key.
DictTruthy(d) == DOMAIN d # {}

AllCallsOk == \A k \in 1..Len(calls) : calls[k].res = "ok"

\* import_events returns and import_ics ends: "if delete:" and the return.
Sweeps ==
    {delete_other_events(store, gcal_changes, FALSE, args.dry_run, now,
                         failAt, dm) :
        now \in Nows, failAt \in 0..Cardinality(SeriesOf(store)),
        dm \in {"gone", "raise"}}
Finish ==
    /\ UNCHANGED cmpvars
    /\ pc = "import"
    /\ idx > Len(feed)
    /\ pc' = "idle"
    /\ IF args.delete
       THEN IF DictTruthy(gcal_changes) \/ args.dry_run
            THEN \E r \in Sweeps :
                    /\ store' = r.store
                    /\ calls' = calls \o r.calls
                    /\ swept' = r.info
                    /\ result' = IF r.raised THEN "raised" ELSE "events"
            ELSE /\ result' = "None"
                 /\ UNCHANGED <<store, calls, swept>>
       ELSE /\ result' = "events"
            /\ UNCHANGED <<store, calls, swept>>
    /\ prev' = IF PlainImport(args) /\ AllCallsOk
               THEN [clean |-> TRUE, doc |-> doc]
               ELSE NoPrev
    /\ UNCHANGED <<calendars, args, source, doc, feed, idx, gcal_changes,
                   processed_uids, runs, outcomes, rerun>>

\* sys.exit(0 if main() else 1): main returns what import_ics returned, and
\* an exception that leaves main ends the process with status 1.
main_exit_status ==
    IF result = "events" /\ DictTruthy(gcal_changes) THEN 0 ELSE 1

Next == StartRun \/ ClearStep \/ ReadFeed \/ ProcessItem \/ Finish

Spec == Init /\ [][Next]_vars

\* Plain imports one after the other on the same calendar.
StartImport == Begin({NoArgs}, MaxImports)
NextImports == StartImport \/ ClearStep \/ ReadFeed \/ ProcessItem \/ Finish
SpecImports == Init /\ [][NextImports]_vars

\* ------------------------------------------------ gcal_compare on its own
\* The events gcal_compare is called with: BaseEvent with one attribute
\* changed, the recurrence among them over lists of up to MaxRules rules.
CompareRules ==
    { RRULE \o <<"A">>, RRULE \o <<"B">>, RRULE \o <<"A", ";", "B">>,
      RRULE \o <<"B", ";", "A">>, <<"A", ";", "B">> }
Recurrences == {NoneRec} \cup {PyList(l) : l \in SeqsUpTo(CompareRules, MaxRules)}
Texts == {None, "", "a", "b"}
CompareEvents ==
    {[BaseEvent EXCEPT !.summary = v] : v \in Texts}
    \cup {[BaseEvent EXCEPT !.description = v] : v \in Texts}
    \cup {[BaseEvent EXCEPT !.location = v] : v \in Texts}
    \cup {[BaseEvent EXCEPT !.start = v] : v \in {0, 1}}
    \cup {[BaseEvent EXCEPT !.end = v] : v \in {2, 3}}
    \cup {[BaseEvent EXCEPT !.transparency = v] :
              v \in {None, "", "opaque", "transparent"}}
    \cup {[BaseEvent EXCEPT !.status = v] :
              v \in {None, "", "confirmed", "tentative"}}
    \cup {[BaseEvent EXCEPT !.sequence = v] : v \in {NoSeq, 0, 1}}
    \cup {[BaseEvent EXCEPT !.recurrence = v] : v \in Recurrences}

importvars == <<store, calendars, args, source, doc, feed, idx, gcal_changes, processed_uids, pc, result, runs, calls, outcomes, swept, prev, rerun>>

\* gcal_compare is about to be called with two events; no import runs.
InitCompare ==
    /\ store = {}
    /\ calendars = TRUE
    /\ args = NoArgs
    /\ source = "none"
    /\ doc = <<>>
    /\ feed = <<>>
    /\ idx = 0
    /\ gcal_changes = EmptyChanges
    /\ processed_uids = <<>>
    /\ pc = "idle"
    /\ result = "none"
    /\ runs = 0
    /\ calls = <<>>
    /\ outcomes = <<>>
    /\ swept = NoSweep
    /\ prev = NoPrev
    /\ rerun = FALSE
    /\ event1 \in CompareEvents
    /\ event2 \in CompareEvents
    /\ \E ignore_sequence \in BOOLEAN :
          compared = [pc |-> "ready", ignore_sequence |-> ignore_sequence,
                      result |-> FALSE, given1 |-> event1, given2 |-> event2]

\* The call gcal_compare(event1, event2, ignore_sequence) returns.
Compare ==
    /\ compared.pc = "ready"
    /\ compared' = [compared EXCEPT
          !.pc = "done",
          !.result = gcal_compare(event1, event2, compared.ignore_sequence)]
    /\ event1' = AfterCompare(event1, event2).first
    /\ event2' = AfterCompare(event1, event2).second
    /\ UNCHANGED importvars

NextCompare == Compare
SpecCompare == InitCompare /\ [][NextCompare]_vars

\* ----------------------------------------------------------------- claims
\* import_events returned (its loop ran to the end of the feed).
ImportReturned == pc = "idle" /\ runs > 0 /\ idx > Len(feed)

WriteOps == {"import_event", "update_event"}
MutationOps == {"import_event", "update_event", "delete_event",
                "calendars.insert"}
CallsWhere(P(_)) == {k \in 1..Len(calls) : P(calls[k])}
IsWrite(c) == c.by = "import_events" /\ c.op \in WriteOps

\* C1: when a plain import is run again on the unchanged feed, every call of
\* both runs answering "ok", the second run makes no create and no update
\* and its ledger has no `created` and no `updated` entry.
C1_Idempotent ==
    (rerun /\ AllCallsOk) =>
        /\ gcal_changes.created = <<>>
        /\ gcal_changes.updated = <<>>
        /\ CallsWhere(IsWrite) = {}


\* The entries of a list of the ledger that carry the identity uid.
EntriesOf(list, uid) == {k \in 1..Len(list) : list[k].iCalUID = uid}
\* The calls made for the feed item i.
CallsFor(i) == CallsWhere(LAMBDA c : c.by = "import_events" /\ c.item = i)

\* C2: across repeated plain imports of any feeds the calendar never holds
\* two series with the same identity; import_event is called for an item
\* only after its lookup by identity returned nothing, only for the first
\* feed item of that identity, and never for a recurrence instance.
C2_NoDuplication ==
    /\ \A e1, e2 \in SeriesOf(store) :
          e1.iCalUID = e2.iCalUID => e1 = e2
    /\ \A k \in 1..Len(calls) :
          calls[k].op = "import_event" =>
             /\ ~feed[calls[k].item].RECURRENCE_ID
             /\ \A j \in 1..(calls[k].item - 1) :
                   feed[j].UID # calls[k].uid
             /\ \E j \in 1..(k - 1) :
                   /\ calls[j].op = "get_events"
                   /\ calls[j].item = calls[k].item
                   /\ calls[j].uid = calls[k].uid
                   /\ calls[j].found = 0
\* The second import read a feed that repeats an identity; its first
\* occurrence was created and the calendar answered the call.
C2_Witness ==
    /\ runs = MaxImports
    /\ ImportReturned
    /\ gcal_changes.duplicates # <<>>
    /\ gcal_changes.created # <<>>
    /\ \E k \in 1..Len(calls) :
          calls[k].op = "import_event" /\ calls[k].res = "ok"

\* C3 as claimed: every feed item whose identity occurred in an earlier
\* item is classified `duplicate` without any calendar call, so that the
\* writes for an identity are all made for one item (stated for the runs
\* in which every call answers "ok").
C3_AnyRepeatIsDuplicate ==
    AllCallsOk =>
       /\ \A i \in 1..Len(outcomes) :
             (\E j \in 1..(i - 1) : feed[j].UID = feed[i].UID) =>
                outcomes[i].kind = "duplicates" /\ CallsFor(i) = {}
       /\ \A k1, k2 \in CallsWhere(IsWrite) :
             calls[k1].uid = calls[k2].uid => calls[k1].item = calls[k2].item
\* C3, amended: every item without RECURRENCE-ID whose identity occurred in
\* an earlier item without RECURRENCE-ID is classified `duplicate` without
\* any calendar call; the calls made for series items of an identity are
\* all made for its first occurrence.
C3_SeriesRepeatIsDuplicate ==
    \A i \in 1..Len(outcomes) :
       (/\ ~feed[i].RECURRENCE_ID
        /\ \E j \in 1..(i - 1) :
              ~feed[j].RECURRENCE_ID /\ feed[j].UID = feed[i].UID) =>
          /\ outcomes[i].kind = "duplicates"
          /\ CallsFor(i) = {}
          /\ \E k \in 1..Len(gcal_changes.duplicates) :
                gcal_changes.duplicates[k].iCalUID = feed[i].UID
\* The second item repeats the identity of the first, which was written.
C3_Witness ==
    /\ Len(outcomes) = 2
    /\ ~feed[1].RECURRENCE_ID /\ ~feed[2].RECURRENCE_ID
    /\ feed[1].UID = feed[2].UID
    /\ \E k \in CallsFor(1) : calls[k].op \in WriteOps /\ calls[k].res = "ok"
    /\ outcomes[2].kind = "duplicates"

\* C4: when import_events returns, each identity of the feed has exactly
\* one entry among created/updated/untouched/unsupported/failed, and one
\* `duplicates` entry for each further occurrence.
FeedUids == {feed[i].UID : i \in 1..Len(feed)}
Occurrences(uid) == {i \in 1..Len(feed) : feed[i].UID = uid}
C4_OneEntryPerIdentity ==
    ImportReturned =>
       \A uid \in FeedUids :
          /\ Cardinality(EntriesOf(gcal_changes.created, uid))
             + Cardinality(EntriesOf(gcal_changes.updated, uid))
             + Cardinality(EntriesOf(gcal_changes.untouched, uid))
             + Cardinality(EntriesOf(gcal_changes.unsupported, uid))
             + Cardinality(EntriesOf(gcal_changes.failed, uid)) = 1
          /\ Cardinality(EntriesOf(gcal_changes.duplicates, uid))
             = Cardinality(Occurrences(uid)) - 1

\* C5: in a dry run no call that changes the calendar is made.
C5_DryRunNoMutation ==
    args.dry_run => CallsWhere(LAMBDA c : c.op \in MutationOps) = {}

\* C6: in a dry run the ledger lists an item that would be created under
\* `created` and an item that would be updated under `updated`.
C6_DryRunLedger ==
    args.dry_run =>
       \A i \in 1..Len(outcomes) :
          /\ outcomes[i].kind = "would_create" =>
                EntriesOf(gcal_changes.created, outcomes[i].uid) # {}
          /\ outcomes[i].kind = "would_update" =>
                EntriesOf(gcal_changes.updated, outcomes[i].uid) # {}

\* C7: an item that carries a revision lower than the revision of the event
\* the calendar holds for it is left `untouched` and no update is made.
C7_RevisionGate ==
    \A i \in 1..Len(outcomes) :
       (/\ ~args.dry_run
        /\ feed[i].SEQUENCE # NoSeq
        /\ outcomes[i].remote_sequence > feed[i].SEQUENCE) =>
          /\ outcomes[i].kind = "untouched"
          /\ \A k \in CallsFor(i) : calls[k].op # "update_event"


\* The series the sweep found in the calendar and no longer are there.
SweptAway == {e \in SeriesOf(swept.before) : e \notin store}
\* The identities of the ledger's created, updated and untouched entries.
KeptUids ==
    {uid \in {e.iCalUID : e \in swept.before} :
        \/ EntriesOf(gcal_changes.created, uid) # {}
        \/ EntriesOf(gcal_changes.updated, uid) # {}
        \/ EntriesOf(gcal_changes.untouched, uid) # {}}
\* An event of the window [lower bound, +inf): it ends after the bound.
InSweepWindow(e) == LastEnd(e) > swept.time_min
FringeEvents ==
    {e \in SeriesOf(swept.before) :
        InSweepWindow(e) /\ e.iCalUID \notin KeptUids}

\* C8: a sweep (no dry run) removes only events of the window whose
\* identity is in none of created, updated, untouched; a sweep that
\* returns has removed all of them; every other event is still there.
C8_FringeSweep ==
    (swept.ran /\ ~args.dry_run) =>
       /\ SweptAway \subseteq FringeEvents
       /\ swept.finished => SweptAway = FringeEvents
       /\ \A e \in swept.before :
             (e \in store) \/ (\E f \in FringeEvents :
                                  e = f \/ e.parent = f.event_id)
\* A sweep returned after it removed an event, kept an event of the window
\* that the ledger names and kept an event that is over and in no ledger.
C8_Witness ==
    /\ swept.ran /\ swept.finished /\ ~args.dry_run
    /\ SweptAway # {}
    /\ \E e \in SeriesOf(swept.before) :
          InSweepWindow(e) /\ e.iCalUID \in KeptUids /\ e \in store
    /\ \E e \in SeriesOf(swept.before) :
          ~InSweepWindow(e) /\ e.iCalUID \notin KeptUids /\ e \in store

\* C9: with delete requested and no dry run, a pass whose ledger has no
\* entry but failed ones leads to no delete call of the sweep.
NoOutcomeButFailed ==
    /\ gcal_changes.created = <<>>
    /\ gcal_changes.updated = <<>>
    /\ gcal_changes.untouched = <<>>
    /\ gcal_changes.duplicates = <<>>
    /\ gcal_changes.unsupported = <<>>
C9_SweepSuppressed ==
    (ImportReturned /\ args.delete /\ ~args.dry_run /\ NoOutcomeButFailed)
       => CallsWhere(LAMBDA c : c.by = "delete_other_events"
                                /\ c.op = "delete_event") = {}

\* C10: an item whose import_event or update_event call raised is recorded
\* as `failed`, and the loop goes on.
C10_FailureIsolation ==
    \A k \in CallsWhere(IsWrite) :
       calls[k].res = "raise" => outcomes[calls[k].item].kind = "failed"

\* The VEVENTs of the document, in document order.
DocEvents == SelectSeq(doc, LAMBDA c : c.name = "VEVENT")
\* The calls import_events made for feed items.
ItemCalls == CallsWhere(LAMBDA c : c.by = "import_events" /\ c.item > 0)

\* C11: the feed read_ics returns holds the document's events without
\* RECURRENCE-ID, in document order, followed by its events with
\* RECURRENCE-ID, in document order; every calendar call made for an item
\* without RECURRENCE-ID precedes every call made for an instance item.
C11_InstanceOrdering ==
    idx > 0 =>
       /\ \E n \in 0..Len(feed) :
             /\ \A i \in 1..Len(feed) : feed[i].RECURRENCE_ID <=> (i > n)
             /\ SubSeq(feed, 1, n)
                = SelectSeq(DocEvents, LAMBDA c : ~c.RECURRENCE_ID)
             /\ SubSeq(feed, n + 1, Len(feed))
                = SelectSeq(DocEvents, LAMBDA c : c.RECURRENCE_ID)
       /\ \A k1, k2 \in ItemCalls :
             (/\ feed[calls[k1].item].RECURRENCE_ID
              /\ ~feed[calls[k2].item].RECURRENCE_ID) => k2 < k1
\* The document lists an instance before its series; the series was created
\* first and the instance was then found in it.
C11_Witness ==
    /\ Len(doc) = 2 /\ Len(outcomes) = 2
    /\ doc[1].RECURRENCE_ID /\ ~doc[2].RECURRENCE_ID
    /\ doc[1].UID = doc[2].UID
    /\ feed = <<doc[2], doc[1]>>
    /\ outcomes[1].kind = "created"
    /\ outcomes[2].kind \in {"updated", "untouched"}

\* An attribute with its default put in place of "absent" and "empty".
WithDefault(p, default) == IF p \in {"", None} THEN default ELSE p
\* gcal_compare has returned.
Compared == compared.pc = "done"

\* C12: for two events with the same recurrence, gcal_compare is true
\* exactly when each text attribute agrees with None and "" taken as one
\* value, start and end agree, the transparencies agree with None, "" and
\* "opaque" taken as one value, the statuses agree with None, "" and
\* "confirmed" taken as one value and, unless the sequence is ignored, the
\* sequences agree.
C12_DefaultEquivalence ==
    (Compared /\ compared.given1.recurrence = compared.given2.recurrence) =>
       LET e1 == compared.given1
           e2 == compared.given2
       IN compared.result <=>
             /\ WithDefault(e1.summary, None) = WithDefault(e2.summary, None)
             /\ WithDefault(e1.description, None)
                = WithDefault(e2.description, None)
             /\ WithDefault(e1.location, None)
                = WithDefault(e2.location, None)
             /\ e1.start = e2.start
             /\ e1.end = e2.end
             /\ WithDefault(e1.transparency, "opaque")
                = WithDefault(e2.transparency, "opaque")
             /\ WithDefault(e1.status, "confirmed")
                = WithDefault(e2.status, "confirmed")
             /\ compared.ignore_sequence \/ e1.sequence = e2.sequence
\* An event without transparency compared equal to one with "opaque".
C12_Witness ==
    /\ Compared
    /\ compared.given1.transparency = None
    /\ compared.given2.transparency = "opaque"
    /\ compared.result

\* A rule as the set of its parts, the prefix "RRULE:" removed.
RulesAsSets(recurrence) ==
    {RuleParts(recurrence.rules[i]) : i \in 1..Len(recurrence.rules)}
\* C13: two events that differ at most in their recurrence lists compare
\* equal exactly when the lists have the same length and are equal as sets
\* of rules, each rule the set of its parts.
C13_RecurrenceSetEquality ==
    LET e1 == compared.given1
        e2 == compared.given2
    IN (/\ Compared
        /\ e1.recurrence.isList /\ e2.recurrence.isList
        /\ e1 = [e2 EXCEPT !.recurrence = e1.recurrence]) =>
          (compared.result <=>
              /\ Len(e1.recurrence.rules) = Len(e2.recurrence.rules)
              /\ RulesAsSets(e1.recurrence) = RulesAsSets(e2.recurrence))

\* C20: when gcal_compare has returned, both argument events are as they
\* were passed and no calendar call was made.
C20_ComparatorPure ==
    Compared =>
       /\ event1 = compared.given1
       /\ event2 = compared.given2
       /\ calls = <<>>

\* import_ics has ended (returned, or was left by an exception).
RunEnded == pc = "idle" /\ runs > 0
\* The ledger has no entry.
LedgerEmpty == \A kind \in DOMAIN gcal_changes : gcal_changes[kind] = <<>>
SweepCalls == CallsWhere(LAMBDA c : c.by = "delete_other_events")

\* C14: when read_ics could not read the source, import_ics is left by the
\* exception: no ledger is returned, no create and no update is made, and
\* delete_other_events is not called.
C14_SourceFailure ==
    source = "unavailable" =>
       /\ pc = "idle" /\ result = "raised"
       /\ LedgerEmpty /\ outcomes = <<>>
       /\ CallsWhere(IsWrite) = {}
       /\ ~swept.ran /\ SweepCalls = {}
\* The source could not be read in a run that was to sweep (no dry run) a
\* calendar that holds events.
C14_Witness ==
    /\ source = "unavailable"
    /\ args.delete /\ ~args.dry_run
    /\ SeriesOf(store) # {}

\* C15: a run that ended with a ledger without entries, or that an
\* exception ended, has a non-zero exit status.
C15_ExitStatus ==
    (RunEnded /\ (LedgerEmpty \/ result = "raised")) => main_exit_status # 0

\* The calls of one method made for the feed item i.
CallsOf(i, op) == {k \in CallsFor(i) : calls[k].op = op}

\* C16: an item for which import_event was called and answered has at most
\* one corrective update_event, and it is recorded as `created` when the
\* last comparison found the desired state and as `failed` when it did not.
C16_CreatePath ==
    \A i \in 1..Len(outcomes) :
       (/\ \E k \in CallsOf(i, "import_event") : calls[k].res # "raise"
        /\ outcomes[i].kind # "raised") =>
          /\ Cardinality(CallsOf(i, "update_event")) <= 1
          /\ outcomes[i].kind
             = IF outcomes[i].verified THEN "created" ELSE "failed"

\* The event the feed item i asks for.
Desired(i) == ics_to_gcal(feed[i])
\* A stored event has the attributes the item asks for, defaults taken as
\* equal and the revision left aside.
Matches(e, d) ==
    /\ WithDefault(e.summary, None) = WithDefault(d.summary, None)
    /\ WithDefault(e.description, None) = WithDefault(d.description, None)
    /\ WithDefault(e.location, None) = WithDefault(d.location, None)
    /\ e.start = d.start /\ e.end = d.end
    /\ e.recurrence.isList = d.recurrence.isList
    /\ Len(e.recurrence.rules) = Len(d.recurrence.rules)
    /\ RulesAsSets(e.recurrence) = RulesAsSets(d.recurrence)
    /\ WithDefault(e.transparency, "opaque")
       = WithDefault(d.transparency, "opaque")
    /\ WithDefault(e.status, "confirmed") = WithDefault(d.status, "confirmed")
\* The attributes "Copy event data" puts on the handle are the item's.
Copied(e, d) ==
    /\ WithDefault(e.summary, None) = WithDefault(d.summary, None)
    /\ e.start = d.start /\ e.end = d.end
    /\ e.recurrence = d.recurrence
\* The events the calendar holds under an event_id.
Held(id) == {e \in store : e.event_id = id}

\* What C17 says of the item i for which the event `remote` was found, the
\* updates being made when `writes` holds.
FoundPathOf(i, remote, writes) ==
    LET d == Desired(i)
        updates == CallsOf(i, "update_event")
    IN /\ CallsOf(i, "import_event") = {}
       /\ Matches(remote, d) =>
             outcomes[i].kind = "untouched" /\ updates = {}
       /\ (~Matches(remote, d) /\ writes) =>
             /\ Cardinality(updates) = 1
             /\ \A k \in updates :
                   calls[k].res # "raise" =>
                      outcomes[i].kind
                      = IF outcomes[i].verified THEN "updated" ELSE "failed"
             /\ \A k \in updates :
                   (calls[k].res # "raise" /\ i = Len(outcomes)
                    /\ pc = "import") =>
                      /\ Cardinality(Held(remote.event_id)) = 1
                      /\ \A e \in Held(remote.event_id) :
                            /\ outcomes[i].verified <=> Matches(e, d)
                            /\ calls[k].res = "ok" => Copied(e, d)
       /\ (~Matches(remote, d) /\ ~writes) =>
             updates = {} /\ outcomes[i].kind = "would_update"

\* C17 as claimed: dry run or not, an item whose event was found and
\* differs from it leads to exactly one update.
C17_FoundPath ==
    \A i \in 1..Len(outcomes) :
       outcomes[i].remote # <<>> =>
          FoundPathOf(i, outcomes[i].remote[1], TRUE)
\* C17, amended: outside a dry run an item whose event was found leads to no
\* write and `untouched` when the event has the desired attributes, and
\* otherwise to exactly one update_event on that event with the desired
\* attributes copied, recorded as `updated` when the returned event has
\* them and as `failed` when not; in a dry run no update is made.
C17_FoundPathNoDryRun ==
    \A i \in 1..Len(outcomes) :
       outcomes[i].remote # <<>> =>
          FoundPathOf(i, outcomes[i].remote[1], ~args.dry_run)
\* One item found its event as desired, another was updated on its handle
\* with an update the calendar applied.
C17_Witness ==
    /\ ~args.dry_run /\ pc = "import" /\ Len(outcomes) = 2
    /\ outcomes[1].remote # <<>> /\ outcomes[1].kind = "untouched"
    /\ outcomes[2].remote # <<>> /\ outcomes[2].kind = "updated"
    /\ \E k \in CallsOf(2, "update_event") : calls[k].res = "ok"

\* The feed items with RECURRENCE-ID whose pass of the loop was not left by
\* an exception.
InstanceItems ==
    {i \in 1..Len(outcomes) :
        feed[i].RECURRENCE_ID /\ outcomes[i].kind # "raised"}
\* The instance query of the item i did not return exactly one instance: it
\* raised (as it does when no parent series was found) or returned none or
\* several.
Unresolved(i) ==
    \/ \E k \in CallsOf(i, "get_events") : calls[k].found = 0
    \/ \E k \in CallsOf(i, "get_instances") :
          calls[k].res = "raise" \/ calls[k].found # 1

\* C18: an instance item whose parent series was not found, or whose
\* instance query over its own window raised or returned none or several
\* instances, is `failed` (the loop goes on), its identity is in the
\* ledger's failed list and no write was made for it; an update for an
\* instance item is made only on the one instance the query returned, which
\* lies in the item's window.
C18_InstanceResolution ==
    \A i \in InstanceItems :
       /\ Cardinality(CallsOf(i, "get_instances")) = 1
       /\ CallsOf(i, "import_event") = {}
       /\ Unresolved(i) =>
             /\ outcomes[i].kind = "failed"
             /\ CallsOf(i, "update_event") = {}
             /\ EntriesOf(gcal_changes.failed, feed[i].UID) # {}
       /\ CallsOf(i, "update_event") # {} =>
             /\ \A k \in CallsOf(i, "get_instances") :
                   calls[k].res = "ok" /\ calls[k].found = 1
             /\ outcomes[i].remote # <<>>
             /\ LET e == outcomes[i].remote[1]
                IN /\ e.parent # 0
                   /\ e.iCalUID = feed[i].UID
                   /\ e.start < feed[i].DTEND
                   /\ e.end > feed[i].DTSTART
\* An instance item whose window holds two instances failed, and the next
\* instance item was updated on the one instance of its window.
C18_Witness ==
    /\ Len(outcomes) = 2 /\ InstanceItems = {1, 2}
    /\ \E k \in CallsOf(1, "get_instances") : calls[k].found = 2
    /\ outcomes[1].kind = "failed"
    /\ \E k \in CallsOf(2, "update_event") : calls[k].res = "ok"
    /\ outcomes[2].kind = "updated"

\* C19: an item for which a lookup (get_events by identity, get_instances)
\* raised is recorded as `failed` with its identity.
C19_MatcherIsolation ==
    \A k \in ItemCalls :
       (calls[k].op \in {"get_events", "get_instances"}
        /\ calls[k].res = "raise") =>
          /\ outcomes[calls[k].item].kind = "failed"
          /\ EntriesOf(gcal_changes.failed, calls[k].uid) # {}

\* C21: a delete of the sweep that the calendar answers with "already
\* gone" counts as a deletion: the sweep is not left by an exception, it
\* goes on and ends with every fringe event of its window removed.
C21_BestEffortSweep ==
    \A k \in SweepCalls :
       (calls[k].op = "delete_event" /\ calls[k].res = "gone") =>
          /\ swept.finished
          /\ result # "raised"
          /\ SweptAway = FringeEvents

\* C22: in a run with delete and no dry run, every event the sweep removed
\* has an identity that no item of the run's feed has; an event whose item
\* was matched and ended as failed is still in the calendar.
C22_SweepOnlyFringe ==
    (swept.ran /\ ~args.dry_run) =>
       \A e \in SweptAway : e.iCalUID \notin FeedUids

\* The run was asked to clear the calendar and is no dry run.
ClearRequested == runs > 0 /\ args.clear /\ ~args.dry_run
ClearCalls == CallsWhere(LAMBDA c : c.by = "gcal_clear")
\* gcal_clear has returned: import_events was entered.
ClearReturned == pc \in {"read", "import"} \/ source # "none"
ImportCalls == CallsWhere(LAMBDA c : c.by = "import_events")
\* The creates of import_events that were answered, for one identity.
CreatesOf(uid) ==
    {k \in ImportCalls :
        /\ calls[k].op = "import_event"
        /\ calls[k].uid = uid
        /\ calls[k].res # "raise"}

\* C23: in a run with clear and no dry run, every call of gcal_clear comes
\* before the feed is read and before every call of import_events; when
\* gcal_clear has returned the calendar holds no event, the lookup of a
\* non-instance item finds no event and the calendar holds only events of
\* identities this run created; and when the feed could not be read the
\* calendar is empty, no create or update was made and no ledger is
\* returned.
C23_ClearBeforeImport ==
    ClearRequested =>
       /\ pc = "clear" =>
             source = "none" /\ feed = <<>> /\ ImportCalls = {}
       /\ \A k \in ClearCalls : \A j \in ImportCalls : k < j
       /\ ImportCalls # {} => ClearReturned
       /\ pc = "read" => store = {}
       /\ \A k \in ImportCalls :
             (/\ calls[k].op = "get_events"
              /\ ~feed[calls[k].item].RECURRENCE_ID
              /\ calls[k].res = "ok") => calls[k].found = 0
       /\ ClearReturned =>
             \A e \in store : CreatesOf(e.iCalUID) # {}
       /\ source = "unavailable" =>
             /\ store = {}
             /\ CallsWhere(IsWrite) = {}
             /\ LedgerEmpty
             /\ result = "raised"
\* gcal_clear deleted two events, one of them answered "already gone"; the
\* item X of the feed then found no event, was created, and the event it
\* created is in the calendar when import_ics has returned.
C23_Witness ==
    /\ ClearRequested /\ RunEnded /\ result = "events"
    /\ \E k \in ClearCalls :
          calls[k].op = "delete_event" /\ calls[k].res = "gone"
    /\ \E k \in ClearCalls :
          calls[k].op = "delete_event" /\ calls[k].res = "ok"
    /\ \E k \in ImportCalls :
          /\ calls[k].op = "get_events" /\ calls[k].uid = "X"
          /\ calls[k].res = "ok" /\ calls[k].found = 0
    /\ CreatesOf("X") # {}
    /\ \E e \in store : e.iCalUID = "X"

====
